---- MODULE Spec2Model ----
(***************************************************************************)
(* Model of the Datadog formatting layer: the attribute extractor and the  *)
(* per-span FieldStore (fields.rs), the correlation id mapper              *)
(* (datadog_ids.rs), the record formatter (formatting.rs) and the layer    *)
(* callbacks on_new_span / on_event (layer.rs).                            *)
(*                                                                         *)
(* Text is a sequence of character codes, so that String::cmp,             *)
(* trim_matches and the Debug rendering of values are computed and not     *)
(* assumed.  A 128-bit TraceId is a number of TraceIdBytes digits of radix *)
(* ByteBase; the radix is scaled down so that the arithmetic stays inside  *)
(* the model checker's integers, the byte positions are the program's.     *)
(***************************************************************************)
EXTENDS Integers, Sequences, FiniteSets, TLC

\* ------------------------------------------------------------------ bounds
MaxSpans == 2
MaxEvents == 2
MaxFields == 3
ByteBase == 2
MaxThreads == 3
MaxCalls == 3

\* ------------------------------------------------------- program constants
Q == 34
BSL == 92
SP == 32
EQ == 61
TraceIdBytes == 16
SpanIdBytes == 8
SliceFrom == 8
InvalidId == 0

None == [tag |-> "None"]
Some(x) == [tag |-> "Some", val |-> x]
IsSome(o) == o.tag = "Some"

\* --------------------------------------------------------------- text
MessageName == <<109, 101, 115, 115, 97, 103, 101>>
KeyTimestamp == <<116, 105, 109, 101, 115, 116, 97, 109, 112>>
KeyLevel == <<108, 101, 118, 101, 108>>
KeyMessage == <<109, 101, 115, 115, 97, 103, 101>>
KeyTarget == <<116, 97, 114, 103, 101, 116>>
KeyTraceId == <<100, 100, 46, 116, 114, 97, 99, 101, 95, 105, 100>>
KeySpanId == <<100, 100, 46, 115, 112, 97, 110, 95, 105, 100>>
FieldsPrefix == <<102, 105, 101, 108, 100, 115, 46>>

NameA == <<97>>
NameAB == <<97, 98>>
NameB == <<98>>

\* String::cmp: byte-wise lexicographic, a proper prefix is smaller.
RECURSIVE StrCmp(_, _)
StrCmp(s, t) ==
  IF s = <<>> /\ t = <<>> THEN "Equal"
  ELSE IF s = <<>> THEN "Less"
  ELSE IF t = <<>> THEN "Greater"
  ELSE IF Head(s) < Head(t) THEN "Less"
  ELSE IF Head(s) > Head(t) THEN "Greater"
  ELSE StrCmp(Tail(s), Tail(t))

\* str::trim_start_matches('"')
RECURSIVE trim_start_matches(_)
trim_start_matches(s) ==
  IF s # <<>> /\ Head(s) = Q THEN trim_start_matches(Tail(s)) ELSE s

\* str::trim_end_matches('"')
RECURSIVE trim_end_matches(_)
trim_end_matches(s) ==
  IF s # <<>> /\ s[Len(s)] = Q
  THEN trim_end_matches(SubSeq(s, 1, Len(s) - 1))
  ELSE s

\* field.value.trim_matches('\"'): every leading and every trailing quote
trim_matches(s) == trim_end_matches(trim_start_matches(s))

\* <str as Debug>::fmt escapes quotes and backslashes
RECURSIVE escape_debug(_)
escape_debug(s) ==
  IF s = <<>> THEN <<>>
  ELSE (IF Head(s) = Q \/ Head(s) = BSL THEN <<BSL, Head(s)>> ELSE <<Head(s)>>)
       \o escape_debug(Tail(s))

\* format!("{value:?}"): a str is quoted and escaped, any other value
\* prints the text of its own Debug implementation.
DebugFmt(raw) ==
  IF raw.kind = "str" THEN <<Q>> \o escape_debug(raw.text) \o <<Q>>
  ELSE raw.text

\* ------------------------------------------------------------ fields.rs
FieldPair(n, v) == [name |-> n, value |-> v]

\* an ordering under which all FieldPairs are equal
cmp_all_equal(a, b) == "Equal"

\* impl Ord for FieldPair: by name alone
cmp(a, b) == StrCmp(a.name, b.name)

\* a visitor that keeps the value of the first call for a name
RECURSIVE Visit_first_wins(_, _)
Visit_first_wins(recorded, fields) ==
  IF recorded = <<>> THEN fields
  ELSE LET r == Head(recorded)
           v == DebugFmt(r.value)
       IN Visit_first_wins(Tail(recorded),
                [n \in DOMAIN fields \cup {r.name} |->
                    IF n \in DOMAIN fields THEN fields[n] ELSE v])

\* Visitor::record_debug: HashMap::insert, a later call for the same name
\* replaces the earlier value.  The visitor is a function name -> value.
RECURSIVE Visit(_, _)
Visit(recorded, fields) ==
  IF recorded = <<>> THEN fields
  ELSE LET r == Head(recorded)
           v == DebugFmt(r.value)
       IN Visit(Tail(recorded),
                [n \in DOMAIN fields \cup {r.name} |->
                    IF n = r.name THEN v ELSE fields[n]])

EmptyMap == [n \in {} |-> <<>>]

\* The orders in which HashMap::into_iter may yield the entries: every
\* arrangement of the entries without repetition.
IterOrders(fields) ==
  {s \in [1..Cardinality(DOMAIN fields) -> DOMAIN fields] :
      \A i, j \in DOMAIN s : i # j => s[i] # s[j]}

\* from_attributes / from_event: the pairs of the visitor's map, in one of
\* the iteration orders of the map.
Extract(recorded) ==
  LET fields == Visit(recorded, EmptyMap)
  IN {[i \in DOMAIN ord |-> FieldPair(ord[i], fields[ord[i]])] :
         ord \in IterOrders(fields)}

\* -------------------------------------------------------- formatting.rs
JString(t) == [t |-> "string", v |-> t]
JNumber(n) == [t |-> "number", v |-> n]

\* Map::insert of a map ordered by key (serde_json without preserve_order)
RECURSIVE MapInsert_by_key(_, _, _)
MapInsert_by_key(log, key, value) ==
  IF log = <<>> THEN <<[k |-> key, v |-> value]>>
  ELSE IF Head(log).k = key THEN <<[k |-> key, v |-> value]>> \o Tail(log)
  ELSE IF StrCmp(key, Head(log).k) = "Less"
       THEN <<[k |-> key, v |-> value]>> \o log
  ELSE <<Head(log)>> \o MapInsert_by_key(Tail(log), key, value)

\* serde_json::Map::insert with insertion order preserved: a new key is
\* appended, an existing key keeps its place and takes the new value.
MapInsert(log, key, value) ==
  IF \E i \in DOMAIN log : log[i].k = key
  THEN [i \in DOMAIN log |->
          IF log[i].k = key THEN [k |-> key, v |-> value] ELSE log[i]]
  ELSE Append(log, [k |-> key, v |-> value])

\* DateTime::to_rfc3339: the instant (a tick of the clock) followed by the
\* UTC offset "+00:00".
to_rfc3339(t) == <<48 + t, 43, 48, 48, 58, 48, 48>>

\* Level::to_string
LevelText(l) ==
  IF l = "INFO" THEN <<73, 78, 70, 79>> ELSE <<69, 82, 82, 79, 82>>

\* an insertion that puts x in front of the elements equal to it
RECURSIVE SortInsert_before_equal(_, _)
SortInsert_before_equal(sorted, x) ==
  IF sorted = <<>> THEN <<x>>
  ELSE IF cmp(Head(sorted), x) # "Less" THEN <<x>> \o sorted
  ELSE <<Head(sorted)>> \o SortInsert_before_equal(Tail(sorted), x)

\* Vec::sort on FieldPair: stable, ascending by cmp.  SortInsert puts x
\* behind every element that is not greater than x.
RECURSIVE SortInsert(_, _)
SortInsert(sorted, x) ==
  IF sorted = <<>> THEN <<x>>
  ELSE IF cmp(Head(sorted), x) = "Greater" THEN <<x>> \o sorted
  ELSE <<Head(sorted)>> \o SortInsert(Tail(sorted), x)

\* format without the call of sort
sort_skipped(fields) == fields

RECURSIVE sort(_)
sort(fields) ==
  IF fields = <<>> THEN <<>>
  ELSE SortInsert(sort(SubSeq(fields, 1, Len(fields) - 1)),
                  fields[Len(fields)])

\* the loop of format over the sorted fields: acc holds the message text,
\* the JSON map and the suffixes written so far.
RECURSIVE InlineFields(_, _)
InlineFields(fields, acc) ==
  IF fields = <<>> THEN acc
  ELSE LET field == Head(fields)
           value == trim_matches(field.value)
       IN InlineFields(Tail(fields),
            IF field.name # MessageName
            THEN [message |-> acc.message \o <<SP>> \o field.name
                                \o <<EQ>> \o value,
                  log |-> MapInsert(acc.log, FieldsPrefix \o field.name,
                                    JString(value)),
                  inlined |-> Append(acc.inlined,
                                     [name |-> field.name, value |-> value])]
            ELSE acc)

\* the ids inserted as if only the trace id were part of the log
InsertIds_trace_only(log_map, ids) ==
  IF IsSome(ids)
  THEN MapInsert(log_map, KeyTraceId, JNumber(ids.val[1]))
  ELSE log_map

\* if let Some((trace_id, span_id)) = self.datadog_ids: both ids are
\* inserted, the trace id first, or neither is
InsertIds(log_map, ids) ==
  IF IsSome(ids)
  THEN MapInsert(MapInsert(log_map, KeyTraceId, JNumber(ids.val[1])),
                 KeySpanId, JNumber(ids.val[2]))
  ELSE log_map

\* DatadogLog::format.  The result is the JSON object that
\* serde_json::to_string writes, entry by entry in map order (json), and
\* the suffixes the loop wrote into the message (inlined).
format(self) ==
  LET log0 == MapInsert(<<>>, KeyTimestamp, JString(to_rfc3339(self.timestamp)))
      log1 == MapInsert(log0, KeyLevel, JString(LevelText(self.level)))
      acc == InlineFields(sort(self.fields),
                          [message |-> self.message, log |-> log1,
                           inlined |-> <<>>])
      log2 == MapInsert(acc.log, KeyMessage, JString(acc.message))
      log3 == MapInsert(log2, KeyTarget, JString(self.target))
      log4 == InsertIds(log3, self.datadog_ids)
  IN [json |-> log4, inlined |-> acc.inlined]

\* ------------------------------------------------------- datadog_ids.rs
RECURSIVE Pow(_, _)
Pow(b, n) == IF n = 0 THEN 1 ELSE b * Pow(b, n - 1)

\* TraceId::to_bytes / SpanId::to_bytes: the n big-endian bytes of value
RECURSIVE to_bytes(_, _)
to_bytes(value, n) ==
  IF n = 0 THEN <<>>
  ELSE to_bytes(value \div ByteBase, n - 1) \o <<value % ByteBase>>

\* u64::from_be_bytes
RECURSIVE from_be_bytes(_)
from_be_bytes(bytes) ==
  IF bytes = <<>> THEN 0
  ELSE from_be_bytes(SubSeq(bytes, 1, Len(bytes) - 1)) * ByteBase
       + bytes[Len(bytes)]

\* the conversion with bytes.get(0..8)
DatadogTraceIdFrom_leading(value) ==
  from_be_bytes(SubSeq(to_bytes(value, TraceIdBytes), 1, SliceFrom))

\* impl From<TraceId> for DatadogTraceId: bytes.get(8..16) of the 16 bytes
DatadogTraceIdFrom(value) ==
  LET bytes == to_bytes(value, TraceIdBytes)
      most_significant_8_bytes == SubSeq(bytes, SliceFrom + 1, TraceIdBytes)
  IN from_be_bytes(most_significant_8_bytes)

\* impl From<SpanId> for DatadogSpanId
DatadogSpanIdFrom(value) == from_be_bytes(to_bytes(value, SpanIdBytes))

unwrap_or(o, d) == IF IsSome(o) THEN o.val ELSE d

\* read_from_context that treats a span whose builder has no valid span
\* id like a span without OtelData
read_from_context_valid_only(reg, cur) ==
  IF cur = 0 THEN <<None, None>>
  ELSE IF ~IsSome(reg[cur].otel) THEN <<None, None>>
  ELSE LET o == reg[cur].otel.val
       IN IF unwrap_or(o.builder_span_id, InvalidId) = InvalidId
          THEN <<None, None>>
          ELSE <<Some(DatadogTraceIdFrom(o.parent_cx_trace_id)),
                 Some(DatadogSpanIdFrom(o.builder_span_id.val))>>

\* read_from_context that looks at the span registered last in place of
\* the current span
read_from_context_newest(reg, cur) ==
  IF cur = 0 THEN <<None, None>>
  ELSE IF ~IsSome(reg[Len(reg)].otel) THEN <<None, None>>
  ELSE LET o == reg[Len(reg)].otel.val
       IN <<Some(DatadogTraceIdFrom(o.parent_cx_trace_id)),
            Some(DatadogSpanIdFrom(unwrap_or(o.builder_span_id, InvalidId)))>>

\* read_from_context with unwrap_or_default in place of the None pair
read_from_context_default(reg, cur) ==
  IF cur = 0 \/ ~IsSome(reg[cur].otel) THEN <<Some(InvalidId), Some(InvalidId)>>
  ELSE LET o == reg[cur].otel.val
       IN <<Some(DatadogTraceIdFrom(o.parent_cx_trace_id)),
            Some(DatadogSpanIdFrom(unwrap_or(o.builder_span_id, InvalidId)))>>

\* read_from_context: cur is the current span of the context (0: none),
\* reg the span registry.  The trace id is read from the parent context of
\* the span's OtelData, the span id from its builder.
read_from_context(reg, cur) ==
  IF cur = 0 THEN <<None, None>>
  ELSE IF ~IsSome(reg[cur].otel) THEN <<None, None>>
  ELSE LET o == reg[cur].otel.val
       IN <<Some(DatadogTraceIdFrom(o.parent_cx_trace_id)),
            Some(DatadogSpanIdFrom(unwrap_or(o.builder_span_id, InvalidId)))>>

\* -------------------------------------------------------------- state
VARIABLES
  spans,           \* the registry: span id -> [parent, fields, otel]
  entered,         \* the stack of entered spans of the dispatching thread
  otel_installed,  \* whether the OpenTelemetry layer is part of the stack
  sink,            \* what EventSink::write received, in order
  events,          \* history: the dispatched events, parallel to sink
  now,             \* the clock read by Utc::now()
  dispatched,      \* history: how many events the host dispatched
  panicked,        \* whether on_event unwound with a panic
  exited,          \* history: the spans that were entered and left again
  log,             \* a DatadogLog handed to format on its own
  formatted,       \* the result of formatting log
  trace_id,        \* a TraceId handed to the conversion on its own
  dd_trace_id,     \* the DatadogTraceId derived from trace_id
  ids_read,        \* what read_from_context returned for a drawn context
  record_calls,    \* the record_debug calls of one notification, in order
  extracted,       \* what from_attributes / from_event returned for it
  ext_lock,        \* the holder of the write lock of one span's extensions
  ext_store,       \* the FieldStore in that span's extensions, if any
  attempt,         \* the on_new_span calls for that span, one per thread
  completions,     \* history: the calls that returned, in order
  dest,            \* the bytes the sink's destination has received
  stdout_lock,     \* the holder of the lock of the standard output
  writer           \* the write calls on the sink, one per thread

vars == <<spans, entered, otel_installed, sink, events, now, dispatched,
          panicked, exited, log, formatted, trace_id, dd_trace_id, ids_read,
          record_calls, extracted,
          ext_lock, ext_store, attempt, completions,
          dest, stdout_lock, writer>>
pipeline_vars == <<spans, entered, otel_installed, sink, events, now,
                   dispatched, panicked, exited>>
format_vars == <<log, formatted>>
ids_vars == <<trace_id, dd_trace_id>>
context_vars == <<ids_read>>
extract_vars == <<record_calls, extracted>>
store_vars == <<ext_lock, ext_store, attempt, completions>>
writer_vars == <<dest, stdout_lock, writer>>

\* ------------------------------------------------------------- inputs
RawStrX == [kind |-> "str", text |-> <<120>>]
RawStrXQ == [kind |-> "str", text |-> <<120, Q>>]
RawArgs == [kind |-> "debug", text |-> <<121>>]
RawErr == [kind |-> "debug", text |-> <<69, 40, Q, 120, Q, 41>>]

Entry(n, raw) == [name |-> n, value |-> raw]

\* what the callsites of the modelled program record: a span records b, or
\* a and message; an event records nothing, or message and a.
SpanRecordings ==
  {<<Entry(NameB, RawStrX)>>,
   <<Entry(NameA, RawArgs), Entry(MessageName, RawStrX)>>}
EventRecordings ==
  {<<>>, <<Entry(MessageName, RawArgs), Entry(NameA, RawStrX)>>}
EventLevels == {"INFO"}
Target == <<116>>

SeqsUpTo(S, n) == UNION {[1..k -> S] : k \in 0..n}

Half == Pow(ByteBase, SliceFrom)

\* RandomIdGenerator: the k-th trace id and the k-th span id it hands out,
\* distinct and valid (non-zero); the two halves of a trace id differ.
NewTraceId(k) == k * Half + (k + 1)
NewSpanId(k) == k + 2

\* ------------------------------------------------------------ layer.rs
Current == IF entered = <<>> THEN 0 ELSE entered[Len(entered)]

\* Scope::from_root of ctx.event_scope(event): the current span and its
\* ancestors along the parent links, outermost first.
RECURSIVE ScopeFromRoot(_, _)
ScopeFromRoot(reg, id) ==
  IF id = 0 THEN <<>> ELSE ScopeFromRoot(reg, reg[id].parent) \o <<id>>

\* from_spans without Scope::from_root: the scope walked leaf to root
RECURSIVE from_spans_leaf_first(_, _)
from_spans_leaf_first(reg, scope) ==
  IF scope = <<>> THEN <<>>
  ELSE from_spans_leaf_first(reg, Tail(scope)) \o reg[Head(scope)].fields.val

\* from_spans: flat_map over the scope of the clone of each FieldStore
RECURSIVE from_spans(_, _)
from_spans(reg, scope) ==
  IF scope = <<>> THEN <<>>
  ELSE reg[Head(scope)].fields.val \o from_spans(reg, Tail(scope))

\* from_spans with every span that has no FieldStore left out of the scope
from_spans_expect_skipping(reg, scope) ==
  [panic |-> FALSE,
   fields |-> from_spans(reg, SelectSeq(scope,
                                LAMBDA id : IsSome(reg[id].fields)))]

\* from_spans as on_event calls it: get::<FieldStore>() of a span without
\* a FieldStore is None and its expect panics, which unwinds on_event
\* before anything is formatted; otherwise the fields are collected.
from_spans_expect(reg, scope) ==
  IF \E k \in DOMAIN scope : ~IsSome(reg[scope[k]].fields)
  THEN [panic |-> TRUE, fields |-> <<>>]
  ELSE [panic |-> FALSE, fields |-> from_spans(reg, scope)]

\* the trace id a span hands to its children as their parent context
TraceOf(o) == unwrap_or(o.builder_trace_id, o.parent_cx_trace_id)

\* OpenTelemetryLayer::on_new_span: the OtelData attached to a new span
OtelDataFor(reg, parent, id) ==
  IF parent # 0 /\ IsSome(reg[parent].otel)
  THEN [parent_cx_trace_id |-> TraceOf(reg[parent].otel.val),
        builder_trace_id |-> None,
        builder_span_id |-> Some(NewSpanId(id))]
  ELSE [parent_cx_trace_id |-> InvalidId,
        builder_trace_id |-> Some(NewTraceId(id)),
        builder_span_id |-> Some(NewSpanId(id))]

\* Registry::new_span followed by on_new_span of every layer: the span is
\* registered under the current span, the FieldStore is inserted because
\* the new span has none, and the tracing layer attaches its OtelData.
\* recordings are the attributes spans are created with.
Register(recordings) ==
  /\ ~panicked
  /\ Len(spans) < MaxSpans
  /\ \E recorded \in recordings :
       \E fields \in Extract(recorded) :
         LET id == Len(spans) + 1
         IN spans' = Append(spans,
              [parent |-> Current,
               fields |-> Some(fields),
               otel |-> IF otel_installed
                        THEN Some(OtelDataFor(spans, Current, id))
                        ELSE None])
  /\ UNCHANGED <<entered, otel_installed, sink, events, now, dispatched,
                 panicked>>
  /\ UNCHANGED <<exited, format_vars, ids_vars, context_vars, extract_vars,
                 store_vars, writer_vars>>

NewSpan == Register(SpanRecordings)

\* Registry::new_span of a host that does not deliver on_new_span to this
\* layer (the layer is put in place while the span is alive, or the
\* notification is filtered out): the span is registered without a
\* FieldStore.
NewSpanUnnotified ==
  /\ ~panicked
  /\ Len(spans) < MaxSpans
  /\ spans' = Append(spans, [parent |-> Current, fields |-> None,
                             otel |-> None])
  /\ UNCHANGED <<entered, otel_installed, sink, events, now, dispatched,
                 panicked>>
  /\ UNCHANGED <<exited, format_vars, ids_vars, context_vars, extract_vars,
                 store_vars, writer_vars>>

\* Span::enter, as in_scope and #[instrument] use it: the span entered is
\* the span created last, a child of the current span (or a root span when
\* no span is entered).
Enter ==
  /\ ~panicked
  /\ \E id \in DOMAIN spans :
       /\ id = Len(spans)
       /\ \A i \in DOMAIN entered : entered[i] # id
       /\ spans[id].parent = Current
       /\ entered' = Append(entered, id)
  /\ UNCHANGED <<spans, otel_installed, sink, events, now, dispatched,
                 panicked>>
  /\ UNCHANGED <<exited, format_vars, ids_vars, context_vars, extract_vars,
                 store_vars, writer_vars>>

\* dropping the guard of the innermost entered span
Leave ==
  /\ ~panicked
  /\ entered # <<>>
  /\ entered' = SubSeq(entered, 1, Len(entered) - 1)
  /\ UNCHANGED <<spans, otel_installed, sink, events, now, dispatched,
                 panicked>>
  /\ UNCHANGED <<format_vars, ids_vars, context_vars, extract_vars,
                 store_vars, writer_vars>>

Exit == Leave /\ UNCHANGED exited

\* the same step with the span that is left noted in the history
ExitNoted == Leave /\ exited' = exited \cup {Current}

\* find with the predicate negated: the first field not named message
FindMessage_negated(event_fields) ==
  IF \E i \in DOMAIN event_fields : event_fields[i].name # MessageName
  THEN event_fields[CHOOSE i \in DOMAIN event_fields :
                       /\ event_fields[i].name # MessageName
                       /\ \A j \in 1..(i - 1) :
                            event_fields[j].name = MessageName].value
  ELSE <<>>

\* the message of the event: the value of its own field named message
FindMessage(event_fields) ==
  IF \E i \in DOMAIN event_fields : event_fields[i].name = MessageName
  THEN event_fields[CHOOSE i \in DOMAIN event_fields :
                       event_fields[i].name = MessageName].value
  ELSE <<>>

\* both ids of read_from_context as the pair DatadogLog carries
CorrelationIds(ids) ==
  IF IsSome(ids[1]) /\ IsSome(ids[2])
  THEN Some(<<ids[1].val, ids[2].val>>)
  ELSE None

\* "Failed to serialize an event to json"
FailedToSerialize ==
  <<70, 97, 105, 108, 101, 100, 32, 116, 111, 32, 115, 101, 114, 105, 97,
    108, 105, 122, 101, 32, 97, 110, 32, 101, 118, 101, 110, 116, 32, 116,
    111, 32, 106, 115, 111, 110>>

\* the outcomes of serde_json::to_string: the text, or an error
NoError == "Ok"
SerErrors == {"Err"}

\* serde_json::to_string: a Result holding the text of the object
to_string(json, ser) ==
  IF ser = NoError THEN [ok |-> TRUE, json |-> json]
  ELSE [ok |-> FALSE, json |-> <<>>]

\* the fallback taken as the text of an empty String
unwrap_or_else_empty(res) ==
  [json |-> res.json, diagnostic |-> <<>>]

\* unwrap_or_else(|_| "Failed to serialize an event to json".to_string())
unwrap_or_else(res) ==
  IF res.ok THEN [json |-> res.json, diagnostic |-> <<>>]
  ELSE [json |-> <<>>, diagnostic |-> FailedToSerialize]

\* a sink that passes each event on twice
write_twice(s, event) == Append(Append(s, event), event)

\* EventSink::write of the layer's sink: the event is appended to what the
\* sink has received
write(s, event) == Append(s, event)

\* on_event for an event whose scope has all its FieldStores: extract,
\* merge, read the ids, format, serialize, append the newline and write to
\* the sink.  recordings are what events record, levels the levels they
\* are logged at, sers the outcomes of the serializer.
Dispatch(recordings, levels, sers) ==
  /\ ~panicked
  /\ dispatched < MaxEvents
  /\ ~from_spans_expect(spans, ScopeFromRoot(spans, Current)).panic
  /\ \E recorded \in recordings, level \in levels, ser \in sers :
       \E event_fields \in Extract(recorded) :
         LET message == FindMessage(event_fields)
             scope == ScopeFromRoot(spans, Current)
             all_fields == from_spans_expect(spans, scope).fields
                             \o event_fields
             datadog_ids == read_from_context(spans, Current)
             out == format([timestamp |-> now, level |-> level,
                            message |-> message, fields |-> all_fields,
                            target |-> Target,
                            datadog_ids |-> CorrelationIds(datadog_ids)])
             serialized_event == unwrap_or_else(to_string(out.json, ser))
         IN /\ sink' = write(sink, [json |-> serialized_event.json,
                                    diagnostic |-> serialized_event.diagnostic,
                                    newline |-> TRUE])
            /\ events' = Append(events,
                 [current |-> Current, scope |-> scope,
                  event_fields |-> event_fields, level |-> level,
                  exited |-> exited,
                  timestamp |-> now, ser |-> ser,
                  message |-> message, all_fields |-> all_fields,
                  inlined |-> out.inlined])
  /\ now' = now + 1
  /\ dispatched' = dispatched + 1
  /\ UNCHANGED <<spans, entered, otel_installed, panicked>>
  /\ UNCHANGED <<exited, format_vars, ids_vars, context_vars, extract_vars,
                 store_vars, writer_vars>>

\* on_event with a serializer that does not fail on the record's value types
OnEvent == Dispatch(EventRecordings, EventLevels, {NoError})

\* on_event for an event whose scope has a span without a FieldStore: the
\* expect of from_spans panics before the record is formatted, and nothing
\* reaches the sink.
OnEventPanic ==
  /\ ~panicked
  /\ dispatched < MaxEvents
  /\ from_spans_expect(spans, ScopeFromRoot(spans, Current)).panic
  /\ panicked' = TRUE
  /\ dispatched' = dispatched + 1
  /\ UNCHANGED <<spans, entered, otel_installed, sink, events, now>>
  /\ UNCHANGED <<exited, format_vars, ids_vars, context_vars, extract_vars,
                 store_vars, writer_vars>>

NotFormatted == [json |-> <<>>, inlined |-> <<>>]
IdleLog == [timestamp |-> 0, level |-> "INFO", message |-> <<>>,
            fields |-> <<>>, target |-> <<>>, datadog_ids |-> None]

\* the parts of the state a specification does not use stay as follows
NotRead == <<>>
IdlePipeline ==
  /\ spans = <<>>
  /\ entered = <<>>
  /\ otel_installed = FALSE
  /\ sink = <<>>
  /\ events = <<>>
  /\ now = 0
  /\ dispatched = 0
  /\ panicked = FALSE
  /\ exited = {}
IdleFormat == log = IdleLog /\ formatted = NotFormatted
IdleIds == trace_id = 0 /\ dd_trace_id = None
IdleContext == ids_read = NotRead
NotExtracted == <<[name |-> <<>>, value |-> <<>>]>>
IdleExtract == record_calls = <<>> /\ extracted = NotExtracted
IdleStore ==
  /\ ext_lock = 0
  /\ ext_store = None
  /\ attempt = <<>>
  /\ completions = <<>>
IdleWriters == dest = <<>> /\ stdout_lock = 0 /\ writer = <<>>

Init ==
  /\ spans = <<>>
  /\ entered = <<>>
  /\ otel_installed \in BOOLEAN
  /\ sink = <<>>
  /\ events = <<>>
  /\ now = 0
  /\ dispatched = 0
  /\ panicked = FALSE
  /\ exited = {}
  /\ log = IdleLog
  /\ formatted = NotFormatted
  /\ trace_id = 0
  /\ dd_trace_id = None
  /\ IdleContext
  /\ IdleExtract
  /\ IdleStore
  /\ IdleWriters

Next == NewSpan \/ Enter \/ Exit \/ OnEvent

Spec == Init /\ [][Next]_vars

\* ------------------------------------------- format on its own inputs
FormatNames == {NameA, NameAB, NameB, MessageName}
FormatValues == {DebugFmt(RawStrX), DebugFmt(RawStrXQ), DebugFmt(RawErr)}
FormatPairs == {FieldPair(n, v) : n \in FormatNames, v \in FormatValues}
FormatMessages == {<<>>, <<121>>}
FormatIds == {None, Some(<<1, 2>>)}
FormatLevels == {"INFO", "ERROR"}

InitFormat ==
  /\ spans = <<>>
  /\ entered = <<>>
  /\ otel_installed = FALSE
  /\ sink = <<>>
  /\ events = <<>>
  /\ now = 0
  /\ dispatched = 0
  /\ panicked = FALSE
  /\ exited = {}
  /\ log \in [timestamp : {0}, level : FormatLevels, message : FormatMessages,
              fields : SeqsUpTo(FormatPairs, MaxFields), target : {Target},
              datadog_ids : FormatIds]
  /\ formatted = NotFormatted
  /\ trace_id = 0
  /\ dd_trace_id = None
  /\ IdleContext
  /\ IdleExtract
  /\ IdleStore
  /\ IdleWriters

\* DatadogLog::format applied to log
FormatLog ==
  /\ formatted = NotFormatted
  /\ formatted' = format(log)
  /\ UNCHANGED <<log, pipeline_vars, ids_vars, context_vars, extract_vars,
                 store_vars, writer_vars>>

NextFormat == FormatLog

SpecFormat == InitFormat /\ [][NextFormat]_vars

\* ------------------------------------- the trace id conversion on its own
HalfValues == {0, 1, 2, 3, Half \div 2, Half - 3, Half - 2, Half - 1}
TraceIdInputs == {hi * Half + lo : hi \in HalfValues, lo \in HalfValues}

InitIds ==
  /\ spans = <<>>
  /\ entered = <<>>
  /\ otel_installed = FALSE
  /\ sink = <<>>
  /\ events = <<>>
  /\ now = 0
  /\ dispatched = 0
  /\ panicked = FALSE
  /\ exited = {}
  /\ log = IdleLog
  /\ formatted = NotFormatted
  /\ trace_id \in TraceIdInputs
  /\ dd_trace_id = None
  /\ IdleContext
  /\ IdleExtract
  /\ IdleStore
  /\ IdleWriters

\* DatadogTraceId::from(trace_id)
ConvertTraceId ==
  /\ dd_trace_id = None
  /\ IdleContext
  /\ IdleExtract
  /\ IdleStore
  /\ IdleWriters
  /\ dd_trace_id' = Some(DatadogTraceIdFrom(trace_id))
  /\ UNCHANGED <<trace_id, pipeline_vars, format_vars, context_vars,
                 extract_vars, store_vars, writer_vars>>

NextIds == ConvertTraceId

SpecIds == InitIds /\ [][NextIds]_vars

\* ------------------------------- on_new_span called repeatedly for one span
Threads == 1..MaxThreads

\* a lock that is handed out while it is held
lock_free_shared(holder) == TRUE

\* RwLock::write and Stdout::lock block while another thread holds the lock
lock_free(holder) == holder = 0

\* each thread is about to deliver on_new_span for the same span id, with
\* the attributes of its notification
InitStore ==
  /\ IdlePipeline
  /\ IdleFormat
  /\ IdleIds
  /\ IdleContext
  /\ IdleExtract
  /\ IdleWriters
  /\ ext_lock = 0
  /\ ext_store = None
  /\ attempt \in [Threads -> [pc : {"call"}, span_attrs : SpanRecordings,
                              fields : {<<>>}, is_none : {FALSE}]]
  /\ completions = <<>>

\* span.extensions_mut(): the write lock of the span's extensions
ExtensionsMut(t) ==
  /\ attempt[t].pc = "call"
  /\ lock_free(ext_lock)
  /\ ext_lock' = t
  /\ attempt' = [attempt EXCEPT ![t].pc = "locked"]
  /\ UNCHANGED <<ext_store, completions>>

\* fields::from_attributes(span_attrs)
FromAttributes(t) ==
  /\ attempt[t].pc = "locked"
  /\ \E fields \in Extract(attempt[t].span_attrs) :
       attempt' = [attempt EXCEPT ![t].pc = "extracted", ![t].fields = fields]
  /\ UNCHANGED <<ext_lock, ext_store, completions>>

\* extensions.get_mut::<FieldStore>().is_none()
GetMut(t) ==
  /\ attempt[t].pc = "extracted"
  /\ attempt' = [attempt EXCEPT ![t].pc = "checked",
                                ![t].is_none = ~IsSome(ext_store)]
  /\ UNCHANGED <<ext_lock, ext_store, completions>>

\* extensions.insert(FieldStore { fields }), in the branch of the if
Insert(t) ==
  /\ attempt[t].pc = "checked"
  /\ ext_store' = IF attempt[t].is_none THEN Some(attempt[t].fields)
                  ELSE ext_store
  /\ attempt' = [attempt EXCEPT ![t].pc = "inserted"]
  /\ UNCHANGED <<ext_lock, completions>>

\* the end of on_new_span: the guard of the extensions is dropped
Return(t) ==
  /\ attempt[t].pc = "inserted"
  /\ ext_lock' = 0
  /\ attempt' = [attempt EXCEPT ![t].pc = "returned"]
  /\ completions' = Append(completions, t)
  /\ UNCHANGED ext_store

NextStore ==
  /\ \E t \in Threads :
       ExtensionsMut(t) \/ FromAttributes(t) \/ GetMut(t) \/ Insert(t)
         \/ Return(t)
  /\ UNCHANGED <<pipeline_vars, format_vars, ids_vars, context_vars,
                 extract_vars, writer_vars>>

SpecStore == InitStore /\ [][NextStore]_vars

\* --------------------- a host that leaves spans without a FieldStore
InitHost ==
  /\ IdlePipeline
  /\ IdleFormat
  /\ IdleIds
  /\ IdleContext
  /\ IdleExtract
  /\ IdleStore
  /\ IdleWriters

NextHost ==
  NewSpan \/ NewSpanUnnotified \/ Enter \/ Exit \/ OnEvent \/ OnEventPanic

SpecHost == InitHost /\ [][NextHost]_vars

\* ------------------------------------- StdoutSink::write from several threads
\* the serialized events the threads hand to write: each ends in the
\* newline on_event pushes, and they differ in content and length
EventBodies == {<<73>>, <<69, 82>>}
EventBytes(t, body) == <<123, 48 + t>> \o body \o <<125, 10>>

\* a standard output whose lock is handed out while it is held
stdout_available_unlocked(holder) == TRUE

\* Stdout::write_all locks the standard output for the whole call
stdout_available(holder) == holder = 0

InitSink ==
  /\ IdlePipeline
  /\ IdleFormat
  /\ IdleIds
  /\ IdleContext
  /\ IdleExtract
  /\ IdleStore
  /\ dest = <<>>
  /\ stdout_lock = 0
  /\ writer \in [Threads -> [pc : {"call"}, body : EventBodies, pos : {0},
                             turn : {0}]]

\* stdout().write_all(..): the lock of the standard output is taken; turn
\* is history, the position of the call among the calls that got the lock
StdoutLock(t) ==
  /\ writer[t].pc = "call"
  /\ stdout_available(stdout_lock)
  /\ stdout_lock' = t
  /\ writer' = [writer EXCEPT
       ![t].pc = "writing",
       ![t].turn = 1 + Cardinality({u \in Threads : writer[u].turn # 0})]
  /\ UNCHANGED dest

\* write_all hands the bytes of the event on, at worst one at a time
WriteByte(t) ==
  /\ writer[t].pc = "writing"
  /\ writer[t].pos < Len(EventBytes(t, writer[t].body))
  /\ dest' = Append(dest, EventBytes(t, writer[t].body)[writer[t].pos + 1])
  /\ writer' = [writer EXCEPT ![t].pos = writer[t].pos + 1]
  /\ UNCHANGED stdout_lock

\* write_all returns Ok once every byte is handed on; the lock is released
\* and unwrap returns
StdoutUnlock(t) ==
  /\ writer[t].pc = "writing"
  /\ writer[t].pos = Len(EventBytes(t, writer[t].body))
  /\ stdout_lock' = 0
  /\ writer' = [writer EXCEPT ![t].pc = "returned"]
  /\ UNCHANGED dest

NextSink ==
  /\ \E t \in Threads : StdoutLock(t) \/ WriteByte(t) \/ StdoutUnlock(t)
  /\ UNCHANGED <<pipeline_vars, format_vars, ids_vars, context_vars,
                 extract_vars, store_vars>>

SpecSink == InitSink /\ [][NextSink]_vars

\* ----------------------------- on_event with a serializer that may fail
\* serde_json::to_string returns a Result; here either outcome is drawn
OnEventFallible ==
  Dispatch(EventRecordings, FormatLevels, {NoError} \cup SerErrors)

InitFallible ==
  /\ IdlePipeline
  /\ IdleFormat
  /\ IdleIds
  /\ IdleContext
  /\ IdleExtract
  /\ IdleStore
  /\ IdleWriters

NextFallible == OnEventFallible

SpecFallible == InitFallible /\ [][NextFallible]_vars

\* ------------------------------- read_from_context on its own contexts
\* the OtelData a span may carry: the parent context's trace id is invalid
\* or set, the builder's span id is unset, SpanId::INVALID or set
ContextTraceIds == {InvalidId, NewTraceId(1), NewTraceId(2)}
ContextSpanIds == {None, Some(InvalidId), Some(NewSpanId(1))}
ContextOtel ==
  {None} \cup
  {Some([parent_cx_trace_id |-> t, builder_trace_id |-> None,
         builder_span_id |-> s]) : t \in ContextTraceIds, s \in ContextSpanIds}

\* registries of nested spans, each the child of the one before
ContextSpans(n) ==
  {[id \in 1..n |-> [parent |-> id - 1, fields |-> Some(<<>>),
                     otel |-> otels[id]]] : otels \in [1..n -> ContextOtel]}

InitContext ==
  /\ \E n \in 0..MaxSpans :
       /\ spans \in ContextSpans(n)
       /\ \E depth \in 0..n : entered = [k \in 1..depth |-> k]
  /\ otel_installed = TRUE
  /\ sink = <<>>
  /\ events = <<>>
  /\ now = 0
  /\ dispatched = 0
  /\ panicked = FALSE
  /\ exited = {}
  /\ IdleFormat
  /\ IdleIds
  /\ ids_read = NotRead
  /\ IdleExtract
  /\ IdleStore
  /\ IdleWriters

\* datadog_ids::read_from_context(&ctx)
ReadFromContext ==
  /\ ids_read = NotRead
  /\ ids_read' = read_from_context(spans, Current)
  /\ UNCHANGED <<pipeline_vars, format_vars, ids_vars, extract_vars,
                 store_vars, writer_vars>>

NextContext == ReadFromContext

SpecContext == InitContext /\ [][NextContext]_vars

\* ------------------------- the pipeline with the spans left kept as history
InitNested ==
  /\ spans = <<>>
  /\ entered = <<>>
  /\ otel_installed = TRUE
  /\ sink = <<>>
  /\ events = <<>>
  /\ now = 0
  /\ dispatched = 0
  /\ panicked = FALSE
  /\ exited = {}
  /\ IdleFormat
  /\ IdleIds
  /\ IdleContext
  /\ IdleExtract
  /\ IdleStore
  /\ IdleWriters

\* spans without attributes and events with a message alone
PlainSpanRecordings == {<<>>}
PlainEventRecordings == {<<Entry(MessageName, RawStrX)>>}
NewSpanPlain == Register(PlainSpanRecordings)
OnEventPlain == Dispatch(PlainEventRecordings, EventLevels, {NoError})

NextNested == NewSpanPlain \/ Enter \/ ExitNoted \/ OnEventPlain

SpecNested == InitNested /\ [][NextNested]_vars

\* ----------------------- from_attributes / from_event on their own inputs
\* the record_debug calls one notification makes: up to MaxCalls calls,
\* names may repeat
CallNames == {NameA, NameB, MessageName}
CallValues == {RawStrX, RawArgs}
Calls == {Entry(n, v) : n \in CallNames, v \in CallValues}

InitExtract ==
  /\ IdlePipeline
  /\ IdleFormat
  /\ IdleIds
  /\ IdleContext
  /\ record_calls \in SeqsUpTo(Calls, MaxCalls)
  /\ extracted = NotExtracted
  /\ IdleStore
  /\ IdleWriters

\* from_attributes(attrs) / from_event(event): the visitor is filled by the
\* calls and its map is collected in one of its iteration orders
ExtractFields ==
  /\ extracted = NotExtracted
  /\ extracted' \in Extract(record_calls)
  /\ UNCHANGED <<record_calls, pipeline_vars, format_vars, ids_vars,
                 context_vars, store_vars, writer_vars>>

NextExtract == ExtractFields

SpecExtract == InitExtract /\ [][NextExtract]_vars

\* ------------------------- events with several attributes per notification
\* a span created with two attributes, an event with a message and two
\* attributes, one name a prefix of the other
MultiSpanRecordings == {<<Entry(NameB, RawStrX), Entry(NameA, RawArgs)>>}
MultiEventRecordings ==
  {<<Entry(NameA, RawArgs), Entry(NameAB, RawErr),
     Entry(MessageName, RawArgs)>>}
OnEventMulti == Dispatch(MultiEventRecordings, EventLevels, {NoError})

\* registries of nested spans with such attributes, each the child of the
\* one before, its store in one of the extractor's orders
MultiStores == UNION {Extract(recorded) : recorded \in MultiSpanRecordings}
MultiSpans(n) ==
  {[id \in 1..n |-> [parent |-> id - 1, fields |-> Some(stores[id]),
                     otel |-> None]] : stores \in [1..n -> MultiStores]}

\* the spans are created and entered; events are about to be logged
InitMulti ==
  /\ \E n \in 0..MaxSpans :
       /\ spans \in MultiSpans(n)
       /\ entered = [k \in 1..n |-> k]
  /\ otel_installed = FALSE
  /\ sink = <<>>
  /\ events = <<>>
  /\ now = 0
  /\ dispatched = 0
  /\ panicked = FALSE
  /\ exited = {}
  /\ IdleFormat
  /\ IdleIds
  /\ IdleContext
  /\ IdleExtract
  /\ IdleStore
  /\ IdleWriters

NextMulti == OnEventMulti

SpecMulti == InitMulti /\ [][NextMulti]_vars

\* =============================================================== claims
JsonHas(json, key) == \E i \in DOMAIN json : json[i].k = key
JsonGet(json, key) == json[CHOOSE i \in DOMAIN json : json[i].k = key].v
JsonKeys(json) == [i \in DOMAIN json |-> json[i].k]

NonMessage(fields) == SelectSeq(fields, LAMBDA f : f.name # MessageName)
HasMessage(fields) == \E i \in DOMAIN fields : fields[i].name = MessageName

RECURSIVE SuffixText(_)
SuffixText(inlined) ==
  IF inlined = <<>> THEN <<>>
  ELSE <<SP>> \o Head(inlined).name \o <<EQ>> \o Head(inlined).value
       \o SuffixText(Tail(inlined))

CountName(fields, n) == Cardinality({i \in DOMAIN fields : fields[i].name = n})

\* the message text of the i-th written record
RecordMessage(i) == JsonGet(sink[i].json, KeyMessage).v

\* the message text of the i-th record without its name=value suffixes
RecordBase(i) ==
  SubSeq(RecordMessage(i), 1,
         Len(RecordMessage(i)) - Len(SuffixText(events[i].inlined)))

StoreOf(id) == spans[id].fields.val

RECURSIVE StoreOffset(_, _)
StoreOffset(scope, k) ==
  IF k <= 1 THEN 0
  ELSE StoreOffset(scope, k - 1) + Len(StoreOf(scope[k - 1]))

\* scope is the chain of parent links that ends in the span cur
IsChainTo(scope, cur) ==
  /\ (scope = <<>>) <=> (cur = 0)
  /\ scope # <<>> =>
       /\ scope[Len(scope)] = cur
       /\ spans[scope[1]].parent = 0
       /\ \A k \in 2..Len(scope) : spans[scope[k]].parent = scope[k - 1]

\* C1: the merged attribute sequence handed to the formatter is the stored
\* attributes of every ancestor scope of the event, root scope first and
\* current scope last, each store in its stored order, followed by the
\* event's own attributes; with no active scope it is the event's own
\* attributes alone.
C1_MergedIsAncestorsThenEvent ==
  \A i \in DOMAIN events :
    LET e == events[i]
        n == Len(e.scope)
        total == StoreOffset(e.scope, n + 1)
    IN /\ IsChainTo(e.scope, e.current)
       /\ Len(e.all_fields) = total + Len(e.event_fields)
       /\ \A k \in 1..n : \A j \in DOMAIN StoreOf(e.scope[k]) :
            e.all_fields[StoreOffset(e.scope, k) + j] = StoreOf(e.scope[k])[j]
       /\ \A j \in DOMAIN e.event_fields :
            e.all_fields[total + j] = e.event_fields[j]
       /\ n = 0 => e.all_fields = e.event_fields

\* an event in a child scope: the root store holds two attributes, the child
\* store and the event hold attributes of their own
C1_Witness ==
  \E i \in DOMAIN events :
    /\ Len(events[i].scope) = 2
    /\ Len(StoreOf(events[i].scope[1])) = 2
    /\ Len(StoreOf(events[i].scope[2])) = 1
    /\ Len(events[i].event_fields) = 2
    /\ Len(events[i].all_fields) = 5

C4_NoIdsOutsideScopes ==
  \A i \in DOMAIN events :
    /\ events[i].scope = <<>> =>
         /\ ~JsonHas(sink[i].json, KeyTraceId)
         /\ ~JsonHas(sink[i].json, KeySpanId)
    /\ \A k \in DOMAIN sink[i].json :
         sink[i].json[k].v.t \in {"string", "number"}

\* the tracing layer is installed, one event was fired outside every scope
\* and another one inside a scope, which carries ids
C4_Witness ==
  /\ otel_installed
  /\ \E i, j \in DOMAIN events :
       /\ events[i].scope = <<>>
       /\ events[j].scope # <<>>
       /\ JsonHas(sink[j].json, KeyTraceId)

\* C7 as claimed: if any attribute of the merged sequence, from a scope or
\* from the event, is named message, its value is the base message; without
\* such an attribute the base message is empty.
C7_AnyMessageAttributeIsBase ==
  \A i \in DOMAIN events :
    LET m == events[i].all_fields
    IN /\ HasMessage(m) =>
            \E k \in DOMAIN m : m[k].name = MessageName
                                /\ RecordBase(i) = m[k].value
       /\ ~HasMessage(m) => RecordBase(i) = <<>>

\* C7 amended: if the event's own attributes hold one named message, its
\* value is the base message; otherwise the base message is empty, also
\* when an ancestor scope stores an attribute named message.
C7_EventMessageIsBase ==
  \A i \in DOMAIN events :
    LET own == events[i].event_fields
    IN /\ HasMessage(own) =>
            \A k \in DOMAIN own :
              own[k].name = MessageName => RecordBase(i) = own[k].value
       /\ ~HasMessage(own) => RecordBase(i) = <<>>

\* one event with a message of its own, and one without inside a scope that
\* stores an attribute named message
C7_Witness ==
  /\ \E i \in DOMAIN events :
       HasMessage(events[i].event_fields) /\ RecordBase(i) # <<>>
  /\ \E i \in DOMAIN events :
       /\ ~HasMessage(events[i].event_fields)
       /\ HasMessage(events[i].all_fields)
       /\ RecordBase(i) = <<>>

NonMessageNames(fields) ==
  {fields[i].name : i \in {j \in DOMAIN fields : fields[j].name # MessageName}}

\* C3: the keys of the JSON record are, in this order: timestamp, level, the
\* fields.<name> keys of the non-message attributes sorted by name, message,
\* target and, only with correlation ids, dd.trace_id then dd.span_id as the
\* last two keys, both JSON numbers.
C3_KeyOrder ==
  formatted # NotFormatted =>
    LET keys == JsonKeys(formatted.json)
        n == Len(keys)
        ids == IF IsSome(log.datadog_ids) THEN 2 ELSE 0
        nf == n - 4 - ids
        names == NonMessageNames(log.fields)
    IN /\ nf >= 0
       /\ keys[1] = KeyTimestamp
       /\ keys[2] = KeyLevel
       /\ \A i \in 3..(2 + nf) : \E nm \in names : keys[i] = FieldsPrefix \o nm
       /\ \A nm \in names : \E i \in 3..(2 + nf) : keys[i] = FieldsPrefix \o nm
       /\ \A i \in 3..(1 + nf) : StrCmp(keys[i], keys[i + 1]) # "Greater"
       /\ keys[3 + nf] = KeyMessage
       /\ keys[4 + nf] = KeyTarget
       /\ IsSome(log.datadog_ids) =>
            /\ keys[n - 1] = KeyTraceId
            /\ keys[n] = KeySpanId
            /\ formatted.json[n - 1].v = JNumber(log.datadog_ids.val[1])
            /\ formatted.json[n].v = JNumber(log.datadog_ids.val[2])
       /\ ~IsSome(log.datadog_ids) =>
            \A i \in 1..n : keys[i] # KeyTraceId /\ keys[i] # KeySpanId

\* a log with correlation ids, an attribute named message and attributes
\* named b and a in that order, formatted
C3_Witness ==
  /\ formatted # NotFormatted
  /\ IsSome(log.datadog_ids)
  /\ HasMessage(log.fields)
  /\ \E i, j \in DOMAIN log.fields :
       i < j /\ log.fields[i].name = NameB /\ log.fields[j].name = NameA
  /\ Len(formatted.json) = 8

\* the modulus of the bytes 8..16 of a trace id
LowModulus == Pow(ByteBase, TraceIdBytes - SliceFrom)

C6_TraceIdIsHighHalf ==
  IsSome(dd_trace_id) => dd_trace_id.val = trace_id \div LowModulus

\* one leading and one trailing quote removed, nothing else
StripEnclosing(v) ==
  LET a == IF v # <<>> /\ Head(v) = Q THEN Tail(v) ELSE v
  IN IF a # <<>> /\ a[Len(a)] = Q THEN SubSeq(a, 1, Len(a) - 1) ELSE a

\* C8: an inlined value is the attribute's value without the double quotes
\* that enclose it at its two ends, every other character kept, interior
\* quotes and an escaped quote next to the closing quote included; the same
\* text is the value of the suffix and of fields.<name>.
C8_OnlyEnclosingQuotesRemoved ==
  formatted # NotFormatted =>
    LET rest == NonMessage(log.fields)
        inl == formatted.inlined
    IN /\ Len(inl) = Len(rest)
       /\ JsonGet(formatted.json, KeyMessage).v = log.message \o SuffixText(inl)
       /\ \A k \in DOMAIN rest : \E j \in DOMAIN inl :
            /\ inl[j].name = rest[k].name
            /\ inl[j].value = StripEnclosing(rest[k].value)
       /\ \A j \in DOMAIN inl : \E k \in DOMAIN rest :
            /\ inl[j].name = rest[k].name
            /\ inl[j].value = StripEnclosing(rest[k].value)
       /\ \A j \in DOMAIN inl :
            /\ JsonHas(formatted.json, FieldsPrefix \o inl[j].name)
            /\ \E k \in DOMAIN inl :
                 /\ inl[k].name = inl[j].name
                 /\ JsonGet(formatted.json, FieldsPrefix \o inl[j].name)
                      = JString(inl[k].value)

RecordTraceId(i) == JsonGet(sink[i].json, KeyTraceId).v
RecordSpanId(i) == JsonGet(sink[i].json, KeySpanId).v
HasBothIds(i) ==
  JsonHas(sink[i].json, KeyTraceId) /\ JsonHas(sink[i].json, KeySpanId)

\* C9: with the tracing layer installed, an event fired inside the root
\* scope of a trace has dd.trace_id and dd.span_id, both non-zero.
C9_RootScopeEventHasValidIds ==
  otel_installed =>
    \A i \in DOMAIN events :
      Len(events[i].scope) = 1 =>
        /\ HasBothIds(i)
        /\ RecordTraceId(i) # 0
        /\ RecordSpanId(i) # 0

\* C10: events fired in scopes of one trace (the same root scope) have the
\* same dd.trace_id, events fired in two different scopes have different
\* dd.span_id.
C10_OneTraceIdPerTrace ==
  otel_installed =>
    \A i, j \in DOMAIN events :
      (events[i].scope # <<>> /\ events[j].scope # <<>>) =>
        /\ HasBothIds(i) /\ HasBothIds(j)
        /\ events[i].scope[1] = events[j].scope[1] =>
             RecordTraceId(i) = RecordTraceId(j)
        /\ events[i].current # events[j].current =>
             RecordSpanId(i) # RecordSpanId(j)

\* C11: however the on_new_span calls for one span id interleave or repeat,
\* once a call has returned the span's store holds the fields extracted
\* from the attributes of the call that returned first, and it keeps
\* holding them whatever the later calls bring.
C11_FirstAttemptWins ==
  completions # <<>> =>
    /\ IsSome(ext_store)
    /\ ext_store.val = attempt[completions[1]].fields
    /\ ext_store.val \in Extract(attempt[completions[1]].span_attrs)

\* C11 witness: two calls with different attributes have returned
C11_Witness ==
  /\ Len(completions) >= 2
  /\ attempt[completions[2]].fields # attempt[completions[1]].fields
  /\ ext_store = Some(attempt[completions[1]].fields)

Range(s) == {s[i] : i \in DOMAIN s}

\* C12: an event whose scope holds a span without a FieldStore makes
\* on_event panic and writes no record: every record the sink holds belongs
\* to an event whose scope had all its stores, a panic happens only with a
\* store missing in the scope of the event being dispatched, and that event
\* is the one dispatched event without a record.
C12_MissingStoreIsFatal ==
  /\ Len(sink) = Len(events)
  /\ \A i \in DOMAIN events :
       \A k \in DOMAIN events[i].scope :
         IsSome(spans[events[i].scope[k]].fields)
  /\ panicked =>
       /\ \E id \in Range(ScopeFromRoot(spans, Current)) :
            ~IsSome(spans[id].fields)
       /\ dispatched = Len(sink) + 1
  /\ ~panicked => dispatched = Len(sink)

\* C12 witness: after one event was written, an event inside two nested
\* spans, one of them without a store, has panicked
C12_Witness ==
  /\ panicked
  /\ Len(sink) = 1
  /\ Len(ScopeFromRoot(spans, Current)) = 2
  /\ \E id \in Range(ScopeFromRoot(spans, Current)) : IsSome(spans[id].fields)

\* C13: after k events were dispatched the sink has received exactly k
\* writes, and the i-th write is the record of the i-th dispatched event
\* (the timestamp read at the i-th dispatch, the event's level and message,
\* a trailing newline); creating, entering and leaving spans writes nothing.
C13_OneWritePerEvent ==
  /\ Len(sink) = dispatched
  /\ \A i \in DOMAIN sink :
       /\ events[i].timestamp = i - 1
       /\ JsonGet(sink[i].json, KeyTimestamp) = JString(to_rfc3339(i - 1))
       /\ JsonGet(sink[i].json, KeyLevel) = JString(LevelText(events[i].level))
       /\ RecordMessage(i) = events[i].message \o SuffixText(events[i].inlined)
       /\ sink[i].newline

\* C13 witness: two events with different messages were dispatched, in
\* different scopes, and two spans were created and entered on the way
C13_Witness ==
  /\ dispatched = 2
  /\ Len(spans) = 2
  /\ Len(entered) = 2
  /\ events[1].scope # events[2].scope
  /\ events[1].message # events[2].message

Turns == {writer[t].turn : t \in Threads} \ {0}
WriterAt(n) == CHOOSE t \in Threads : writer[t].turn = n

\* the bytes handed on so far by the first n calls that got the lock, call
\* after call
RECURSIVE WrittenInTurn(_)
WrittenInTurn(n) ==
  IF n = 0 THEN <<>>
  ELSE WrittenInTurn(n - 1)
       \o SubSeq(EventBytes(WriterAt(n), writer[WriterAt(n)].body), 1,
                 writer[WriterAt(n)].pos)

\* C14: with several threads in write at once, the destination is the
\* events of the calls one after the other, each as one contiguous block:
\* only the call that holds the lock may have a part of its event still to
\* come, every call that returned has its whole event in the destination
\* once, and no call that has not started has any byte there.
C14_RecordsAreContiguous ==
  /\ dest = WrittenInTurn(Cardinality(Turns))
  /\ \A t \in Threads :
       /\ writer[t].pc = "returned" =>
            /\ writer[t].turn # 0
            /\ writer[t].pos = Len(EventBytes(t, writer[t].body))
       /\ writer[t].pc = "call" => writer[t].turn = 0 /\ writer[t].pos = 0
       /\ (writer[t].turn # 0 /\ writer[t].turn < Cardinality(Turns)) =>
            writer[t].pos = Len(EventBytes(t, writer[t].body))
       /\ \A u \in Threads :
            (u # t /\ writer[t].turn # 0) => writer[u].turn # writer[t].turn

\* C14 witness: two calls have returned, with events of different length,
\* while a third call is in the middle of its event
C14_Witness ==
  \E t, u, w \in Threads :
    /\ writer[t].pc = "returned" /\ writer[u].pc = "returned"
    /\ writer[t].body # writer[u].body
    /\ writer[w].pc = "writing" /\ writer[w].pos = 2
    /\ Len(dest) > Len(EventBytes(t, writer[t].body))
                     + Len(EventBytes(u, writer[u].body))

\* C15: when serializing a record fails, on_event does not panic: the
\* fixed text "Failed to serialize an event to json", with the newline, is
\* written in place of the record, as that event's one write; every event
\* whose serialization succeeds, also after a failure, is written as its
\* normal record.
C15_FailureWritesDiagnostic ==
  /\ ~panicked
  /\ Len(sink) = dispatched
  /\ \A i \in DOMAIN sink :
       /\ sink[i].newline
       /\ events[i].ser # NoError =>
            sink[i].diagnostic = FailedToSerialize /\ sink[i].json = <<>>
       /\ events[i].ser = NoError =>
            /\ sink[i].diagnostic = <<>>
            /\ JsonGet(sink[i].json, KeyTimestamp) = JString(to_rfc3339(i - 1))
            /\ JsonGet(sink[i].json, KeyMessage)
                 = JString(events[i].message \o SuffixText(events[i].inlined))

\* C15 witness: the first event failed to serialize and the second, with a
\* message and an attribute, was written as a record
C15_Witness ==
  /\ Len(sink) = 2
  /\ events[1].ser # NoError
  /\ sink[1].diagnostic = FailedToSerialize
  /\ events[2].ser = NoError
  /\ events[2].message # <<>>
  /\ events[2].inlined # <<>>

HasFieldsPrefix(key) ==
  /\ Len(key) >= Len(FieldsPrefix)
  /\ SubSeq(key, 1, Len(FieldsPrefix)) = FieldsPrefix
FieldsEntries(json) == {k \in DOMAIN json : HasFieldsPrefix(json[k].k)}

\* C17: every record has one fields.<name> entry per non-message attribute
\* of the merged sequence, equal names included: the number of fields.*
\* entries equals the number of non-message attributes and the number of
\* name=value suffixes of the message.
C17_OneEntryPerAttribute ==
  \A i \in DOMAIN sink :
    /\ Len(events[i].inlined) = Len(NonMessage(events[i].all_fields))
    /\ Cardinality(FieldsEntries(sink[i].json)) = Len(events[i].inlined)

NamedValues(fields, n) ==
  LET named == SelectSeq(fields, LAMBDA f : f.name = n)
  IN [k \in DOMAIN named |-> trim_matches(named[k].value)]
InlinedValues(inlined, n) ==
  LET named == SelectSeq(inlined, LAMBDA f : f.name = n)
  IN [k \in DOMAIN named |-> named[k].value]

\* C18: the sort is stable: for every name, the values of the attributes
\* of that name appear in the name=value suffixes of the message in the
\* order they have in the merged sequence (outer span, inner span, event).
C18_SortIsStable ==
  \A i \in DOMAIN sink :
    /\ RecordMessage(i) = events[i].message \o SuffixText(events[i].inlined)
    /\ \A n \in NonMessageNames(events[i].all_fields) :
         InlinedValues(events[i].inlined, n)
           = NamedValues(events[i].all_fields, n)

\* C18 witness: a record whose event and enclosing span both carry an
\* attribute a, with different values, and whose message has the span's
\* value in the earlier suffix
C18_Witness ==
  \E i \in DOMAIN sink :
    /\ CountName(events[i].event_fields, NameA) = 1
    /\ Len(InlinedValues(events[i].inlined, NameA)) >= 2
    /\ InlinedValues(events[i].inlined, NameA)[1]
         # InlinedValues(events[i].inlined, NameA)[2]
    /\ InlinedValues(events[i].inlined, NameA)[1]
         = trim_matches(StoreOf(events[i].scope[1])[1].value)

\* C19: every written record has dd.trace_id and dd.span_id together or
\* neither of them, whether the event was logged in a span with tracing
\* data, in a span without, or outside every span.
C19_IdsTogether ==
  \A i \in DOMAIN sink :
    JsonHas(sink[i].json, KeyTraceId) <=> JsonHas(sink[i].json, KeySpanId)

\* C19 witness: one record with both ids and one record with neither
C19_Witness ==
  \E i, j \in DOMAIN sink :
    /\ HasBothIds(i)
    /\ ~JsonHas(sink[j].json, KeyTraceId)
    /\ ~JsonHas(sink[j].json, KeySpanId)

HasOtelData == Current # 0 /\ IsSome(spans[Current].otel)

\* C20: when the innermost entered span has OtelData whose builder has no
\* span id, or has SpanId::INVALID, read_from_context returns span id 0,
\* present, together with a trace id; both ids are absent exactly when
\* there is no OtelData to read (the innermost entered span has none, or no
\* span is entered), whatever the enclosing spans carry.
C20_UnsetSpanIdIsZero ==
  ids_read # NotRead =>
    /\ (ids_read = <<None, None>>) <=> ~HasOtelData
    /\ HasOtelData =>
         /\ IsSome(ids_read[1])
         /\ IsSome(ids_read[2])
         /\ unwrap_or(spans[Current].otel.val.builder_span_id, InvalidId)
              = InvalidId => ids_read[2] = Some(0)

\* C20 witness: the ids were read for an innermost span whose builder has
\* no span id and whose parent context has a trace id, giving span id 0
C20_Witness ==
  /\ ids_read # NotRead
  /\ HasOtelData
  /\ spans[Current].otel.val.builder_span_id = None
  /\ spans[Current].otel.val.parent_cx_trace_id # InvalidId
  /\ ids_read[2] = Some(0)
  /\ IsSome(ids_read[1])

\* C21: the ids of a record are those of the span that is innermost when
\* the event is logged: two events logged in the same span carry the same
\* dd.trace_id and the same dd.span_id, whatever spans were created,
\* entered and left between them.
C21_IdsFollowInnermostSpan ==
  \A i, j \in DOMAIN sink :
    (events[i].current = events[j].current /\ events[i].current # 0) =>
      /\ HasBothIds(i)
      /\ HasBothIds(j)
      /\ RecordTraceId(i) = RecordTraceId(j)
      /\ RecordSpanId(i) = RecordSpanId(j)

\* C21 witness: an event in a span, then a child of that span entered and
\* left, then a second event in the span, with the ids of the first
C21_Witness ==
  /\ Len(sink) = 2
  /\ events[1].current # 0
  /\ events[2].current = events[1].current
  /\ \E id \in events[2].exited \ events[1].exited :
       spans[id].parent = events[1].current
  /\ RecordSpanId(2) = RecordSpanId(1)
  /\ RecordTraceId(2) = RecordTraceId(1)

CallNamesOf(calls) == {calls[i].name : i \in DOMAIN calls}
LastCall(calls, n) ==
  calls[CHOOSE i \in DOMAIN calls :
          /\ calls[i].name = n
          /\ \A j \in DOMAIN calls : calls[j].name = n => j <= i]

\* C22: for one notification the extractor returns exactly one pair per
\* distinct recorded name, holding the rendering of the value recorded last
\* under that name; a notification that records nothing gives the empty
\* sequence.
C22_OnePairPerNameLastWins ==
  extracted # NotExtracted =>
    /\ Len(extracted) = Cardinality(CallNamesOf(record_calls))
    /\ {extracted[i].name : i \in DOMAIN extracted} = CallNamesOf(record_calls)
    /\ \A i \in DOMAIN extracted :
         extracted[i].value
           = DebugFmt(LastCall(record_calls, extracted[i].name).value)
    /\ record_calls = <<>> => extracted = <<>>

\* C22 witness: a name was recorded twice with different values, another
\* name between the two calls, and the pair of the first name holds the
\* later value
C22_Witness ==
  /\ extracted # NotExtracted
  /\ Len(record_calls) = 3
  /\ record_calls[1].name = record_calls[3].name
  /\ record_calls[2].name # record_calls[1].name
  /\ record_calls[1].value # record_calls[3].value
  /\ Len(extracted) = 2
  /\ \E i \in DOMAIN extracted :
       /\ extracted[i].name = record_calls[1].name
       /\ extracted[i].value = DebugFmt(record_calls[3].value)

\* the arrangements of a sequence of pairs
Perms(s) ==
  {[i \in DOMAIN s |-> s[p[i]]] :
     p \in {q \in [DOMAIN s -> DOMAIN s] :
              \A i, j \in DOMAIN s : i # j => q[i] # q[j]}}

\* the stores of a scope one after the other, each in any arrangement
RECURSIVE StoresPermuted(_)
StoresPermuted(scope) ==
  IF scope = <<>> THEN {<<>>}
  ELSE {a \o b : a \in Perms(StoreOf(Head(scope))),
                 b \in StoresPermuted(Tail(scope))}

\* what on_event and format make of the i-th event when its scope's stores
\* and its own fields come as given
Reformatted(i, stores, event_fields) ==
  format([timestamp |-> events[i].timestamp, level |-> events[i].level,
          message |-> FindMessage(event_fields),
          fields |-> stores \o event_fields,
          target |-> Target, datadog_ids |-> None]).json

FieldsKeys(json) == SelectSeq(JsonKeys(json), HasFieldsPrefix)

====
